---- MODULE Spec2Model ----
(***************************************************************************)
(* A model of the mini-SQL engine of src/engine.py.                        *)
(*                                                                         *)
(* Text is modelled as a sequence of one-character strings, so that        *)
(* strip, lower, find, split and slicing are computed as Python computes   *)
(* them.  A Python exception is modelled by the "exc" field of the record  *)
(* an operator returns ("" when nothing was raised).                       *)
(***************************************************************************)
EXTENDS Integers, Sequences, FiniteSets, TLC

VARIABLES
  pc,       \* the position of the running call, or of the loop of mini_engine
  args,     \* the arguments of the function call that is checked on its own
  ret,      \* what that call returned or raised
  files,    \* the CSV files that exist, by name
  sql,      \* mini_engine: the line read last, stripped
  parsed,   \* mini_engine: its local variable parsed
  results,  \* mini_engine: its local variable results
  output    \* mini_engine: the lines printed since the last prompt

vars == <<pc, args, ret, files, sql, parsed, results, output>>

\* ------------------------------------------------------------------------
\* Bounds of the model
\* ------------------------------------------------------------------------

\* The longest row value and literal that compare_values is applied to
MaxLen == 2

\* The most conditions of a well-formed condition list
MaxConds == 3

\* The longest list of conditions and operators in any order
MaxItems == 4

\* The longest select-list text and the most words of a WHERE text given
\* to parse_query
MaxSelLen == 3

MaxWords == 4

\* The most records of a CSV file
MaxRows == 2

\* ------------------------------------------------------------------------
\* Python str primitives
\* ------------------------------------------------------------------------

\* The printable ASCII characters in code-point order, from 32 (space);
\* the three that TLA+ strings cannot hold are named.
Ascii ==
  << " ", "!", "<dquote>", "#", "$", "%", "&", "'", "(", ")", "*", "+", ",", "-",
     ".", "/", "0", "1", "2", "3", "4", "5", "6", "7", "8", "9", ":", ";",
     "<", "=", ">", "?", "@", "A", "B", "C", "D", "E", "F", "G", "H", "I",
     "J", "K", "L", "M", "N", "O", "P", "Q", "R", "S", "T", "U", "V", "W",
     "X", "Y", "Z", "[", "<backslash>", "]", "^", "_", "<backtick>", "a", "b", "c", "d", "e",
     "f", "g", "h", "i", "j", "k", "l", "m", "n", "o", "p", "q", "r", "s",
     "t", "u", "v", "w", "x", "y", "z", "{", "|", "}", "~" >>

Ord(c) == 31 + (CHOOSE i \in 1..Len(Ascii) : Ascii[i] = c)

Chr(n) == Ascii[n - 31]

IsSpace(c) == c = " "

IsDigit(c) == c \in {"0", "1", "2", "3", "4", "5", "6", "7", "8", "9"}

UpperLetters == {Ascii[i] : i \in 34..59}

LowerLetters == {Ascii[i] : i \in 66..91}

LowerChar(c) == IF c \in UpperLetters THEN Chr(Ord(c) + 32) ELSE c

UpperChar(c) == IF c \in LowerLetters THEN Chr(Ord(c) - 32) ELSE c

\* str.lower()
lower(s) == [i \in 1..Len(s) |-> LowerChar(s[i])]

\* str.upper()
upper(s) == [i \in 1..Len(s) |-> UpperChar(s[i])]

\* str.strip()
strip(s) ==
  LET keep == {i \in 1..Len(s) : ~IsSpace(s[i])}
  IN  IF keep = {} THEN << >>
      ELSE LET lo == CHOOSE i \in keep : \A j \in keep : i <= j
               hi == CHOOSE i \in keep : \A j \in keep : j <= i
           IN  SubSeq(s, lo, hi)

\* s[a:b] for 0-based a, b, where a negative index counts from the end
Slice(s, a, b) ==
  LET n  == Len(s)
      a0 == IF a < 0 THEN (IF n + a < 0 THEN 0 ELSE n + a) ELSE (IF a > n THEN n ELSE a)
      b0 == IF b < 0 THEN (IF n + b < 0 THEN 0 ELSE n + b) ELSE (IF b > n THEN n ELSE b)
  IN  IF a0 >= b0 THEN << >> ELSE SubSeq(s, a0 + 1, b0)

\* s[a:]
SliceFrom(s, a) == Slice(s, a, Len(s))

\* str.find(sub): the lowest 0-based index where sub occurs, or -1
find(s, sub) ==
  LET hits == {i \in 0..(Len(s) - Len(sub)) : SubSeq(s, i + 1, i + Len(sub)) = sub}
  IN  IF hits = {} THEN -1 ELSE CHOOSE i \in hits : \A j \in hits : i <= j

\* sub in s
contains(s, sub) == find(s, sub) # -1

\* str.startswith / str.endswith
startswith(s, p) == Len(s) >= Len(p) /\ SubSeq(s, 1, Len(p)) = p

endswith(s, p) == Len(s) >= Len(p) /\ SubSeq(s, Len(s) - Len(p) + 1, Len(s)) = p

\* str.split(sep) for a one-character separator
RECURSIVE split(_, _)
split(s, sep) ==
  LET k == find(s, <<sep>>)
  IN  IF k = -1 THEN <<s>>
      ELSE <<Slice(s, 0, k)>> \o split(SliceFrom(s, k + 1), sep)

\* s < t on Python strings: lexicographic by code point
RECURSIVE StrLess(_, _)
StrLess(s, t) ==
  IF t = << >> THEN FALSE
  ELSE IF s = << >> THEN TRUE
  ELSE IF s[1] # t[1] THEN Ord(s[1]) < Ord(t[1])
  ELSE StrLess(Tail(s), Tail(t))

\* The strings over an alphabet of length at most n
RECURSIVE StringsUpTo(_, _)
StringsUpTo(alpha, n) ==
  IF n = 0 THEN {<< >>}
  ELSE LET shorter == StringsUpTo(alpha, n - 1)
       IN  shorter \cup {Append(s, c) : s \in shorter, c \in alpha}

\* ------------------------------------------------------------------------
\* Helpers (src/engine.py, "Helpers")
\* ------------------------------------------------------------------------

RECURSIVE DigitsValue(_)
DigitsValue(ds) ==
  IF ds = << >> THEN 0
  ELSE 10 * DigitsValue(SubSeq(ds, 1, Len(ds) - 1)) + (Ord(ds[Len(ds)]) - 48)

AllDigits(ds) == \A i \in 1..Len(ds) : IsDigit(ds[i])

Pow10(k) == IF k = 0 THEN 1 ELSE IF k = 1 THEN 10 ELSE IF k = 2 THEN 100
            ELSE IF k = 3 THEN 1000 ELSE IF k = 4 THEN 10000 ELSE 100000

\* The text after an optional leading sign
Unsigned(s) == IF s # << >> /\ s[1] \in {"+", "-"} THEN Tail(s) ELSE s

IsNegative(s) == s # << >> /\ s[1] = "-"

\* int(s) succeeds (s already stripped): an optional sign and one or more
\* digits.  Underscore digit separators are outside the modelled alphabet.
IntParses(s) == Unsigned(s) # << >> /\ AllDigits(Unsigned(s))

\* float(s) succeeds for a stripped s that contains '.': an optional sign,
\* digits, '.', digits, with a digit on at least one side.  Exponents and
\* underscores are outside the modelled alphabet.
FloatParses(s) ==
  LET u == Unsigned(s)
      k == find(u, <<".">>)
  IN  /\ k # -1
      /\ AllDigits(Slice(u, 0, k))
      /\ AllDigits(SliceFrom(u, k + 1))
      /\ Len(u) >= 2

\* A number is kept as sign * mant / 10^scale.
NumRec(isFloat, neg, mant, scale) ==
  [t |-> "num", isFloat |-> isFloat, neg |-> neg, mant |-> mant, scale |-> scale, s |-> << >>]

StrRec(s) ==
  [t |-> "str", isFloat |-> FALSE, neg |-> FALSE, mant |-> 0, scale |-> 0, s |-> s]

\* try_parse_number once s has been stripped (lines 12-20)
ParseStripped(s) ==
  IF s = << >> THEN StrRec(s)
  ELSE IF contains(s, <<".">>)
  THEN IF FloatParses(s)
       THEN NumRec(TRUE, IsNegative(s),
                   DigitsValue(SelectSeq(Unsigned(s), IsDigit)),
                   Len(Unsigned(s)) - find(Unsigned(s), <<".">>) - 1)
       ELSE StrRec(s)
  ELSE IF IntParses(s)
       THEN NumRec(FALSE, IsNegative(s) /\ DigitsValue(Unsigned(s)) # 0,
                   DigitsValue(Unsigned(s)), 0)
       ELSE StrRec(s)

try_parse_number(raw) == ParseStripped(strip(raw))

IsNumber(v) == v.t = "num"

normalize_colname(c) == lower(strip(c))

unquote_value(token) ==
  LET t == strip(token)
  IN  IF Len(t) >= 2 /\ t[1] = "'" /\ t[Len(t)] = "'"
      THEN Slice(t, 1, -1)
      ELSE t

\* ------------------------------------------------------------------------
\* WHERE evaluation: compare_values
\* ------------------------------------------------------------------------

\* The decimal digits of a natural number
RECURSIVE NatStr(_)
NatStr(n) == IF n < 10 THEN <<Chr(48 + n)>> ELSE NatStr(n \div 10) \o <<Chr(48 + (n % 10))>>

\* The fraction digits of mant / 10^scale below the point, without trailing zeros
RECURSIVE FracStr(_, _)
FracStr(frac, scale) ==
  IF scale = 0 \/ frac = 0 THEN << >>
  ELSE <<Chr(48 + (frac \div Pow10(scale - 1)))>> \o FracStr(frac % Pow10(scale - 1), scale - 1)

\* str(v) of a coerced value: an int prints without sign of zero or leading
\* zeros, a float prints its shortest decimal form (no exponent is needed
\* for the magnitudes the bounded inputs reach).
PyStr(v) ==
  IF ~IsNumber(v) THEN v.s
  ELSE IF ~v.isFloat THEN (IF v.neg THEN <<"-">> ELSE << >>) \o NatStr(v.mant)
  ELSE LET ip == v.mant \div Pow10(v.scale)
           fp == FracStr(v.mant % Pow10(v.scale), v.scale)
       IN  (IF v.neg THEN <<"-">> ELSE << >>) \o NatStr(ip) \o <<".">>
             \o (IF fp = << >> THEN <<"0">> ELSE fp)

\* The signed numerators of two numbers over their common denominator
SignedMant(v, other) ==
  (IF v.neg THEN -1 ELSE 1) * v.mant * Pow10(other.scale)

Ops == {<<"=">>, <<"!", "=">>, <<"<">>, <<">">>, <<"<", "=">>, <<">", "=">>}

\* The six operators applied to two numbers (lines 121-126)
CompareNumbers(l, op, r) ==
  CASE op = <<"=">>      -> l = r
    [] op = <<"!", "=">> -> l # r
    [] op = <<"<">>      -> l < r
    [] op = <<">">>      -> l > r
    [] op = <<"<", "=">> -> l <= r
    [] op = <<">", "=">> -> l >= r
    [] OTHER             -> FALSE

\* The six operators applied to two strings (lines 130-135)
CompareStrings(left_s, op, right_s) ==
  CASE op = <<"=">>      -> left_s = right_s
    [] op = <<"!", "=">> -> left_s # right_s
    [] op = <<"<">>      -> StrLess(left_s, right_s)
    [] op = <<">">>      -> StrLess(right_s, left_s)
    [] op = <<"<", "=">> -> ~StrLess(right_s, left_s)
    [] op = <<">", "=">> -> ~StrLess(left_s, right_s)
    [] OTHER             -> FALSE

\* compare_values once both sides have been coerced (lines 119-136)
CompareCoerced(left, op, right) ==
  IF IsNumber(left) /\ IsNumber(right)
  THEN CompareNumbers(SignedMant(left, right), op, SignedMant(right, left))
  ELSE CompareStrings(lower(strip(PyStr(left))), op, lower(strip(PyStr(right))))

compare_values(left_raw, op, right_raw) ==
  CompareCoerced(try_parse_number(left_raw), op, try_parse_number(right_raw))

\* ------------------------------------------------------------------------
\* Parsing
\* ------------------------------------------------------------------------

\* What an operation returns: exc names the exception raised ("" for none)
Return(v) == [exc |-> "", val |-> v]

Raise(e) == [exc |-> e, val |-> << >>]

kw_select == <<"s", "e", "l", "e", "c", "t">>

kw_from == <<" ", "f", "r", "o", "m", " ">>

kw_where == <<" ", "w", "h", "e", "r", "e", " ">>

kw_AND == <<"A", "N", "D">>

kw_OR == <<"O", "R">>

Star == <<"*">>

parse_select_list(token0) ==
  LET token == strip(token0)
  IN  IF token = Star THEN <<Star>>
      ELSE LET parts == split(token, ",")
           IN  SelectSeq([i \in 1..Len(parts) |-> strip(parts[i])],
                         LAMBDA p : p # << >>)

\* shlex.split(s) in its default POSIX mode, for text without double quotes,
\* backslashes or control characters: whitespace separates words, and text
\* between single quotes is taken literally into the current word.  tok is
\* the word being read (started tells '' from no word), and quoted tells
\* that a quote is open.
RECURSIVE ShlexScan(_, _, _, _, _)
ShlexScan(s, i, tok, started, quoted) ==
  IF i > Len(s)
  THEN IF quoted THEN Raise("ValueError")
       ELSE Return(IF started THEN <<tok>> ELSE << >>)
  ELSE IF quoted
  THEN IF s[i] = "'" THEN ShlexScan(s, i + 1, tok, TRUE, FALSE)
       ELSE ShlexScan(s, i + 1, Append(tok, s[i]), TRUE, TRUE)
  ELSE IF s[i] = "'" THEN ShlexScan(s, i + 1, tok, TRUE, TRUE)
  ELSE IF IsSpace(s[i])
  THEN IF started
       THEN LET rest == ShlexScan(s, i + 1, << >>, FALSE, FALSE)
            IN  IF rest.exc # "" THEN rest ELSE Return(<<tok>> \o rest.val)
       ELSE ShlexScan(s, i + 1, << >>, FALSE, FALSE)
  ELSE ShlexScan(s, i + 1, Append(tok, s[i]), TRUE, FALSE)

shlex_split(s) == ShlexScan(s, 1, << >>, FALSE, FALSE)

\* An entry of a condition list: a Condition (a dict in the code) or a
\* logical operator (the string 'AND' or 'OR'), told apart by kind.
Condition(col, op, raw_val) ==
  [kind |-> "cond", col |-> col, op |-> op, raw_val |-> raw_val]

LogicalOperator(word) ==
  [kind |-> "op", col |-> << >>, op |-> word, raw_val |-> << >>]

\* The while loop of parse_where_clause; i is 0-based as in the code.
RECURSIVE ParseWhereLoop(_, _, _)
ParseWhereLoop(tokens, i, conditions) ==
  IF ~(i < Len(tokens)) THEN Return(conditions)
  ELSE IF upper(tokens[i + 1]) \in {kw_AND, kw_OR}
  THEN ParseWhereLoop(tokens, i + 1,
                      Append(conditions, LogicalOperator(upper(tokens[i + 1]))))
  ELSE IF i + 2 >= Len(tokens) THEN Raise("ParseError")
  ELSE LET col == tokens[i + 1]
           op  == tokens[i + 2]
           val == tokens[i + 3]
       IN  IF op \notin Ops THEN Raise("ParseError")
           ELSE ParseWhereLoop(tokens, i + 3,
                               Append(conditions, Condition(col, op, val)))

parse_where_clause(where_part) ==
  LET tokens == shlex_split(where_part)
  IN  IF tokens.exc # "" THEN tokens
      ELSE ParseWhereLoop(tokens.val, 0, << >>)

\* The 'where' entry of a parsed query: None, or a condition list
NoWhere == [is_none |-> TRUE, items |-> << >>]

WhereList(items) == [is_none |-> FALSE, items |-> items]

ParsedQuery(select_list, table_part, where_clause, raw) ==
  [select |-> select_list, from |-> table_part, where |-> where_clause, raw_sql |-> raw]

parse_query(text) ==
  LET stripped == strip(text)
      original == IF endswith(stripped, <<";">>)
                  THEN strip(Slice(stripped, 0, -1)) ELSE stripped
      low      == lower(original)
  IN  IF ~contains(low, kw_select) \/ ~contains(low, kw_from)
      THEN Raise("ParseError")
      ELSE
        LET sel_pos     == find(low, kw_select)
            from_pos    == find(low, kw_from)
            select_part == strip(Slice(original, sel_pos + Len(kw_select), from_pos))
            remaining   == strip(SliceFrom(original, from_pos + Len(kw_from)))
            where_index == find(lower(remaining), kw_where)
            select_list == parse_select_list(select_part)
        IN  IF where_index # -1
            THEN LET table_part   == strip(Slice(remaining, 0, where_index))
                     where_part   == strip(SliceFrom(remaining, where_index + Len(kw_where)))
                     where_clause == parse_where_clause(where_part)
                 IN  IF where_clause.exc # "" THEN where_clause
                     ELSE Return(ParsedQuery(select_list, table_part,
                                             WhereList(where_clause.val), text))
            ELSE Return(ParsedQuery(select_list, strip(remaining), NoWhere, text))

\* ------------------------------------------------------------------------
\* WHERE evaluation: evaluate_conditions
\* ------------------------------------------------------------------------

\* A Python value that is None or a bool
PyNone == [is_none |-> TRUE, b |-> FALSE]

PyBool(b) == [is_none |-> FALSE, b |-> b]

\* A local variable that may not have been assigned yet
Unbound == [bound |-> FALSE, v |-> << >>]

Bound(v) == [bound |-> TRUE, v |-> v]

\* c1 op1 c2 op2 ... cn: conditions at the odd places, operators between
WellFormed(conditions) ==
  /\ Len(conditions) % 2 = 1
  /\ \A i \in 1..Len(conditions) :
       conditions[i].kind = (IF i % 2 = 1 THEN "cond" ELSE "op")

\* The result of one comparison of the list
Holds(row, cond) ==
  compare_values(row[normalize_colname(cond.col)], cond.op, unquote_value(cond.raw_val))

\* The value of a well-formed list when AND binds tighter than OR: the
\* disjunction of its maximal runs of conditions joined by AND
Precedence(row, conditions) ==
  \E i \in 1..Len(conditions) :
    /\ i % 2 = 1
    /\ i = 1 \/ conditions[i - 1].op = kw_OR
    /\ \E j \in i..Len(conditions) :
         /\ j % 2 = 1
         /\ j = Len(conditions) \/ conditions[j + 1].op = kw_OR
         /\ \A k \in i..j : k % 2 = 0 => conditions[k].op = kw_AND
         /\ \A k \in i..j : k % 2 = 1 => Holds(row, conditions[k])

AllColumnsPresent(row, conditions) ==
  \A i \in 1..Len(conditions) :
    conditions[i].kind = "cond" => normalize_colname(conditions[i].col) \in DOMAIN row

\* evaluate_conditions as it would be with SQL's precedence of AND over OR
evaluate_conditions_precedence(row, conditions) ==
  IF conditions.is_none \/ conditions.items = << >> THEN Return(PyBool(TRUE))
  ELSE IF ~AllColumnsPresent(row, conditions.items) THEN Raise("KeyError")
  ELSE IF ~WellFormed(conditions.items) THEN Raise("UnboundLocalError")
  ELSE Return(PyBool(Precedence(row, conditions.items)))

\* The while loop of evaluate_conditions; i is 0-based as in the code.
\* EvalCombine is the part of its body that follows the comparison, whose
\* result is res.
RECURSIVE EvalLoop(_, _, _, _, _), EvalCombine(_, _, _, _, _, _)
EvalLoop(row, conditions, i, result, prev_op) ==
  IF ~(i < Len(conditions)) THEN Return(result)
  ELSE IF conditions[i + 1].kind = "cond"
  THEN IF normalize_colname(conditions[i + 1].col) \notin DOMAIN row
       THEN Raise("KeyError")
       ELSE EvalCombine(row, conditions, i, result, prev_op,
                        compare_values(row[normalize_colname(conditions[i + 1].col)],
                                       conditions[i + 1].op,
                                       unquote_value(conditions[i + 1].raw_val)))
  ELSE EvalLoop(row, conditions, i + 1, result, Bound(conditions[i + 1].op))

EvalCombine(row, conditions, i, result, prev_op, res) ==
  IF result.is_none
  THEN EvalLoop(row, conditions, i + 1, PyBool(res), prev_op)
  ELSE IF ~prev_op.bound THEN Raise("UnboundLocalError")
  ELSE IF prev_op.v = kw_AND
  THEN EvalLoop(row, conditions, i + 1, PyBool(result.b /\ res), prev_op)
  ELSE IF prev_op.v = kw_OR
  THEN EvalLoop(row, conditions, i + 1, PyBool(result.b \/ res), prev_op)
  ELSE EvalLoop(row, conditions, i + 1, result, prev_op)

evaluate_conditions(row, conditions) ==
  IF conditions.is_none \/ conditions.items = << >> THEN Return(PyBool(TRUE))
  ELSE EvalLoop(row, conditions.items, 0, PyNone, Unbound)

\* bool(x) of a value that is None or a bool
Truthy(x) == ~x.is_none /\ x.b

\* ------------------------------------------------------------------------
\* Data loading
\* ------------------------------------------------------------------------

\* The value csv.DictReader gives a field that a short record lacks
NoneCell == <<"<None>">>

dot_csv == <<".", "c", "s", "v">>

\* A CSV file as csv.DictReader reads it: the header's field names and the
\* records, each a sequence of cells (NoneCell for a missing one) that is as
\* long as the header.
CsvFile(fieldnames, records) == [fieldnames |-> fieldnames, records |-> records]

\* The dict comprehension of load_csv_table for one record: the last field
\* with a given normalized name wins.
LoadRow(fieldnames, raw_row) ==
  LET keys == {normalize_colname(fieldnames[i]) : i \in 1..Len(fieldnames)}
      last(k) == CHOOSE i \in 1..Len(fieldnames) :
                   /\ normalize_colname(fieldnames[i]) = k
                   /\ \A j \in 1..Len(fieldnames) :
                        normalize_colname(fieldnames[j]) = k => j <= i
  IN  [k \in keys |-> IF raw_row[last(k)] = NoneCell THEN << >>
                      ELSE strip(raw_row[last(k)])]

\* fs maps the names of the files that exist to their contents.
load_csv_table(table_name, fs) ==
  LET candidates == IF endswith(lower(table_name), dot_csv)
                    THEN <<table_name>>
                    ELSE <<table_name, table_name \o dot_csv>>
      found == {i \in 1..Len(candidates) : candidates[i] \in DOMAIN fs}
  IN  IF found = {} THEN Raise("FileNotFoundError")
      ELSE LET filepath == candidates[CHOOSE i \in found : \A j \in found : i <= j]
               f == fs[filepath]
           IN  Return([rows    |-> [i \in 1..Len(f.records) |->
                                      LoadRow(f.fieldnames, f.records[i])],
                       columns |-> [i \in 1..Len(f.fieldnames) |->
                                      normalize_colname(f.fieldnames[i])]])

\* ------------------------------------------------------------------------
\* Execution
\* ------------------------------------------------------------------------

k_expr == <<"e", "x", "p", "r">>

k_count == <<"c", "o", "u", "n", "t">>

count_open == <<"c", "o", "u", "n", "t", "(">>

COUNT_open == <<"C", "O", "U", "N", "T", "(">>

\* {'expr': expr, 'count': count}
CountRow(expr, count) == [k \in {k_expr, k_count} |-> IF k = k_expr THEN expr ELSE count]

\* [r for r in rows if evaluate_conditions(r, where)]: the rows kept, or the
\* exception of the first row whose evaluation raises.  FilterKeep is given
\* what evaluating the first row returned, and FilterCons what the rest
\* of the rows came to.
RECURSIVE FilterRows(_, _), FilterKeep(_, _, _)
FilterCons(first, keep, rest) ==
  IF rest.exc # "" THEN rest
  ELSE Return((IF keep THEN <<first>> ELSE << >>) \o rest.val)

FilterRows(rows, where) ==
  IF rows = << >> THEN Return(<< >>)
  ELSE FilterKeep(rows, where, evaluate_conditions(Head(rows), where))

FilterKeep(rows, where, e) ==
  IF e.exc # "" THEN Raise(e.exc)
  ELSE FilterCons(Head(rows), Truthy(e.val), FilterRows(Tail(rows), where))

\* r.get(key, '')
Get(r, key) == IF key \in DOMAIN r THEN r[key] ELSE << >>

\* s[s.find('(')+1:s.find(')')].strip()
CountInner(s) == strip(Slice(s, find(s, <<"(">>) + 1, find(s, <<")">>)))

\* CountOf as it would be if COUNT(col) counted every filtered row
CountOf_every_row(inner, filtered) ==
  CountRow(COUNT_open \o inner \o <<")">>, Len(filtered))

\* The entry of results for a COUNT expression over inner (lines 181-185)
CountOf(inner, filtered) ==
  IF inner = Star
  THEN CountRow(COUNT_open \o <<"*", ")">>, Len(filtered))
  ELSE CountRow(COUNT_open \o inner \o <<")">>,
                Cardinality({i \in 1..Len(filtered) :
                   strip(Get(filtered[i], normalize_colname(inner))) # << >>}))

\* The entry of results for one select-list entry s in the COUNT branch
CountEntry(s, filtered) == CountOf(CountInner(s), filtered)

CountResults(sel, filtered) == [i \in 1..Len(sel) |-> CountEntry(sel[i], filtered)]

\* The projection loop: the projected rows, or KeyError from the first
\* filtered row that lacks a selected column
ProjectRows(sel, filtered) ==
  LET missing(r) == \E i \in 1..Len(sel) : normalize_colname(sel[i]) \notin DOMAIN r
  IN  IF \E i \in 1..Len(filtered) : missing(filtered[i])
      THEN Raise("KeyError")
      ELSE Return([i \in 1..Len(filtered) |->
                    [col \in {sel[j] : j \in 1..Len(sel)} |->
                       filtered[i][normalize_colname(col)]]])

\* What execute_query returns for the select list sel, given the filtered
\* rows or the exception that filtering raised (lines 172-198)
SelectResults(sel, filtered) ==
  IF filtered.exc # "" THEN filtered
  ELSE IF sel = <<Star>> THEN filtered
  ELSE IF \E i \in 1..Len(sel) : startswith(lower(sel[i]), count_open)
  THEN Return(CountResults(sel, filtered.val))
  ELSE ProjectRows(sel, filtered.val)

\* ExecuteLoaded as it would be if SELECT * returned the table's rows
\* without applying the WHERE filter
ExecuteLoaded_star_unfiltered(query, loaded) ==
  IF loaded.exc # "" THEN loaded
  ELSE IF query.select = <<Star>>
  THEN SelectResults(query.select, Return(loaded.val.rows))
  ELSE SelectResults(query.select, FilterRows(loaded.val.rows, query.where))

\* execute_query once the table has been loaded, or loading has raised
\* (lines 170-198)
ExecuteLoaded(query, loaded) ==
  IF loaded.exc # "" THEN loaded
  ELSE SelectResults(query.select, FilterRows(loaded.val.rows, query.where))

execute_query(query, fs) == ExecuteLoaded(query, load_csv_table(query.from, fs))

\* ------------------------------------------------------------------------
\* Pretty print
\* ------------------------------------------------------------------------

\* A line of output.  The layout of a line (padding, separators) is not
\* modelled: a line carries its kind and the cells it shows.
Line(kind, cells) == [kind |-> kind, cells |-> cells]

print_results(rows) ==
  IF rows = << >> THEN <<Line("no rows", << >>)>>
  ELSE IF \A i \in 1..Len(rows) : k_expr \in DOMAIN rows[i] /\ k_count \in DOMAIN rows[i]
  THEN [i \in 1..Len(rows) |-> Line("aggregate", rows[i])]
  ELSE LET cols == DOMAIN rows[1]
       IN  <<Line("header", [c \in cols |-> c]), Line("rule", << >>)>>
             \o [i \in 1..Len(rows) |-> Line("row", [c \in cols |-> Get(rows[i], c)])]

\* ------------------------------------------------------------------------
\* compare_values on its own
\* ------------------------------------------------------------------------

NoFiles == << >>

NotCalled == [exc |-> "", val |-> << >>]

CmpAlphabet == {"0", "1", "9", "a", "A", ".", "-", " "}

CmpStrings == StringsUpTo(CmpAlphabet, MaxLen)

InitCompare ==
  /\ pc = "call"
  /\ args \in [left_raw : CmpStrings, op : Ops, right_raw : CmpStrings]
  /\ ret = NotCalled
  /\ files = NoFiles
  /\ sql = << >>
  /\ parsed = Unbound
  /\ results = Unbound
  /\ output = << >>

CallCompare ==
  /\ pc = "call"
  /\ ret' = Return(compare_values(args.left_raw, args.op, args.right_raw))
  /\ pc' = "return"
  /\ UNCHANGED <<args, files, sql, parsed, results, output>>

SpecCompare == InitCompare /\ [][CallCompare]_vars

\* What an operator makes of "left is less than right" and "left equals right"
OpHolds(op, less, equal) ==
  CASE op = <<"=">>      -> equal
    [] op = <<"!", "=">> -> ~equal
    [] op = <<"<">>      -> less
    [] op = <<">">>      -> ~less /\ ~equal
    [] op = <<"<", "=">> -> less \/ equal
    [] op = <<">", "=">> -> ~less

\* The comparison the claim describes: numeric when both sides coerce to
\* numbers, else of the two sides as trimmed, lower-cased strings
ComparedAsClaimed(left_raw, op, right_raw) ==
  LET left  == try_parse_number(left_raw)
      right == try_parse_number(right_raw)
  IN  IF IsNumber(left) /\ IsNumber(right)
      THEN OpHolds(op, SignedMant(left, right) < SignedMant(right, left),
                       SignedMant(left, right) = SignedMant(right, left))
      ELSE OpHolds(op, StrLess(lower(strip(left_raw)), lower(strip(right_raw))),
                       lower(strip(left_raw)) = lower(strip(right_raw)))

\* C5: for every row value, literal and operator, compare_values compares
\* numerically if and only if both sides coerce to numbers, and otherwise
\* compares the two sides as trimmed, lower-cased strings.
C5_ComparesAsClaimed ==
  pc = "return" =>
    ret.val = ComparedAsClaimed(args.left_raw, args.op, args.right_raw)

\* ------------------------------------------------------------------------
\* evaluate_conditions on its own
\* ------------------------------------------------------------------------

col_a == <<"a">>

col_zz == <<"z", "z">>

\* Conditions on the column a of the row, and one on a column it lacks
EvalConditions ==
  {Condition(col_a, <<"=">>, <<v>>) : v \in {"1", "2", "3"}}
    \cup {Condition(<<"A">>, <<">", "=">>, <<"2">>), Condition(col_zz, <<"=">>, <<"1">>)}

EvalOperators == {LogicalOperator(kw_AND), LogicalOperator(kw_OR)}

RECURSIVE ListsUpTo(_, _)
ListsUpTo(S, n) ==
  IF n = 0 THEN {<< >>}
  ELSE LET shorter == ListsUpTo(S, n - 1)
       IN  shorter \cup {Append(l, x) : l \in shorter, x \in S}

\* The lists c1 op1 c2 ... cn of at most n conditions
RECURSIVE WellFormedLists(_)
WellFormedLists(n) ==
  IF n = 1 THEN {<<c>> : c \in EvalConditions}
  ELSE LET shorter == WellFormedLists(n - 1)
       IN  shorter \cup {l \o <<o, c>> : l \in shorter, o \in EvalOperators,
                                          c \in EvalConditions}

EvalRows == {[k \in {col_a} |-> <<v>>] : v \in {"1", "2", "3"}}

InitEvaluate ==
  /\ pc = "call"
  /\ args \in [row : EvalRows, conditions : WellFormedLists(MaxConds)]
  /\ ret = NotCalled
  /\ files = NoFiles
  /\ sql = << >>
  /\ parsed = Unbound
  /\ results = Unbound
  /\ output = << >>

CallEvaluate ==
  /\ pc = "call"
  /\ ret' = evaluate_conditions(args.row, WhereList(args.conditions))
  /\ pc' = "return"
  /\ UNCHANGED <<args, files, sql, parsed, results, output>>

SpecEvaluate == InitEvaluate /\ [][CallEvaluate]_vars

\* The same call on any non-empty list of conditions and operators, as
\* parse_where_clause lets them through
InitEvaluateAny ==
  /\ pc = "call"
  /\ args \in [row : EvalRows,
               conditions : ListsUpTo(EvalConditions \cup EvalOperators, MaxItems)
                              \ {<< >>}]
  /\ ret = NotCalled
  /\ files = NoFiles
  /\ sql = << >>
  /\ parsed = Unbound
  /\ results = Unbound
  /\ output = << >>

SpecEvaluateAny == InitEvaluateAny /\ [][CallEvaluate]_vars

\* (((c1 op1 c2) op2 c3) ... cn) of a well-formed list
RECURSIVE LeftFold(_, _)
LeftFold(row, conditions) ==
  LET n == Len(conditions)
  IN  IF n = 1 THEN Holds(row, conditions[1])
      ELSE IF conditions[n - 1].op = kw_AND
      THEN LeftFold(row, SubSeq(conditions, 1, n - 2)) /\ Holds(row, conditions[n])
      ELSE LeftFold(row, SubSeq(conditions, 1, n - 2)) \/ Holds(row, conditions[n])

\* C1: for every row and every well-formed condition list c1 op1 c2 ... cn,
\* evaluate_conditions returns the strict left fold
\* (((c1 op1 c2) op2 c3) ... cn) of the comparison results.
C1_LeftFold ==
  pc = "return" /\ WellFormed(args.conditions)
                /\ AllColumnsPresent(args.row, args.conditions) =>
    ret = Return(PyBool(LeftFold(args.row, args.conditions)))

\* C1 witness: a=1 OR a=2 AND a=3 was evaluated on a row with a = 1, where
\* the left fold is false and AND-before-OR precedence would give true.
C1_Witness ==
  /\ pc = "return"
  /\ args.row[col_a] = <<"1">>
  /\ args.conditions = << Condition(col_a, <<"=">>, <<"1">>), LogicalOperator(kw_OR),
                          Condition(col_a, <<"=">>, <<"2">>), LogicalOperator(kw_AND),
                          Condition(col_a, <<"=">>, <<"3">>) >>
  /\ ret = Return(PyBool(FALSE))
  /\ Precedence(args.row, args.conditions)

\* C10: for every row and every non-empty condition list, evaluate_conditions
\* fails with a lookup error if any Condition of the list, at any position,
\* names a column the row lacks.
C10_LookupError ==
  pc = "return" /\ ~AllColumnsPresent(args.row, args.conditions) =>
    ret.exc = "KeyError"

\* ------------------------------------------------------------------------
\* parse_query on its own
\* ------------------------------------------------------------------------

RECURSIVE Join(_, _)
Join(words, sep) ==
  IF words = << >> THEN << >>
  ELSE IF Len(words) = 1 THEN words[1]
  ELSE words[1] \o sep \o Join(Tail(words), sep)

txt_select == <<"s", "e", "l", "e", "c", "t", " ">>

txt_SELECT == <<"S", "E", "L", "E", "C", "T", " ">>

txt_from_t == <<" ", "f", "r", "o", "m", " ", "t">>

txt_FROM_t == <<" ", "F", "R", "O", "M", " ", "t">>

txt_where == <<" ", "w", "h", "e", "r", "e", " ">>

txt_WHERE == <<" ", "W", "H", "E", "R", "E", " ">>

SelTexts == StringsUpTo({"*", ",", " ", "a"}, MaxSelLen)

WhereWords ==
  { <<"a">>, <<"=">>, <<"1">>, <<"A", "N", "D">>, <<"o", "r">>, <<"~">>,
    <<"'", "x", " ", "y", "'">>, <<"'">> }

WhereTexts == {Join(ws, <<" ">>) : ws \in ListsUpTo(WhereWords, MaxWords) \ {<< >>}}

ParseTexts ==
  {txt_select \o s \o txt_from_t : s \in SelTexts}
    \cup {txt_SELECT \o s \o txt_FROM_t \o txt_WHERE \o <<"a", " ", "=", " ", "1", ";">> :
            s \in SelTexts}
    \cup {txt_select \o <<"*">> \o txt_from_t \o txt_where \o w : w \in WhereTexts}
    \cup {<<"s", "e", "l", "e", "c", " ", "*">> \o txt_from_t,
          txt_select \o <<"*", " ", "f", "r", "o", "m", "t">>}

InitParse ==
  /\ pc = "call"
  /\ args \in [sql : ParseTexts]
  /\ ret = NotCalled
  /\ files = NoFiles
  /\ sql = << >>
  /\ parsed = Unbound
  /\ results = Unbound
  /\ output = << >>

CallParse ==
  /\ pc = "call"
  /\ ret' = parse_query(args.sql)
  /\ pc' = "return"
  /\ UNCHANGED <<args, files, sql, parsed, results, output>>

SpecParse == InitParse /\ [][CallParse]_vars

\* C8: for every query text that parse_query accepts, the select list is
\* non-empty, and a * in it is the whole list, never one entry among others.
C8_SelectList ==
  pc = "return" /\ ret.exc = "" =>
    /\ ret.val.select # << >>
    /\ (\E i \in 1..Len(ret.val.select) : ret.val.select[i] = Star)
         => ret.val.select = <<Star>>

\* Condition, LogicalOperator, Condition, ...: starts and ends with a
\* Condition and has no two neighbours of one kind
Alternates(conditions) ==
  /\ conditions # << >>
  /\ conditions[1].kind = "cond"
  /\ conditions[Len(conditions)].kind = "cond"
  /\ \A i \in 1..(Len(conditions) - 1) : conditions[i].kind # conditions[i + 1].kind

\* C9: for every WHERE text that parse_where_clause accepts without raising,
\* the condition list it returns strictly alternates Condition,
\* LogicalOperator, Condition, ...
C9_Alternates ==
  pc = "return" /\ ret.exc = "" /\ ~ret.val.where.is_none =>
    Alternates(ret.val.where.items)

\* ------------------------------------------------------------------------
\* execute_query on its own
\* ------------------------------------------------------------------------

t_csv == <<"t", ".", "c", "s", "v">>

\* The header of the file t.csv: its second field normalizes to b
ExecFieldnames == << <<"a">>, <<" ", "B">> >>

ExecRecords == {<<a, b>> : a \in {<<"1">>, <<"2">>}, b \in {<<"x">>, <<" ">>, NoneCell}}

ExecFiles ==
  {[n \in {t_csv} |-> CsvFile(ExecFieldnames, records)] :
     records \in ListsUpTo(ExecRecords, MaxRows)}

\* An entry of a select list: its text, and what it asks for
SelectEntry(text, kind, col) == [text |-> text, kind |-> kind, col |-> col]

e_star == SelectEntry(<<"*">>, "star", << >>)

e_a == SelectEntry(<<"a">>, "plain", <<"a">>)

e_B == SelectEntry(<<"B">>, "plain", <<"B">>)

e_zz == SelectEntry(<<"z", "z">>, "plain", <<"z", "z">>)

e_count_star == SelectEntry(<<"C", "O", "U", "N", "T", "(", "*", ")">>, "count_star", << >>)

e_count_a == SelectEntry(<<"c", "o", "u", "n", "t", "(", "a", ")">>, "count", <<"a">>)

e_count_B == SelectEntry(<<"C", "o", "u", "n", "t", "(", " ", "B", " ", ")">>, "count", <<"B">>)

e_count_zz == SelectEntry(<<"c", "o", "u", "n", "t", "(", "z", "z", ")">>, "count", <<"z", "z">>)

ExecSelects ==
  { <<e_star>>, <<e_a>>, <<e_B, e_a>>, <<e_zz>>, <<e_a, e_zz>>,
    <<e_count_star>>, <<e_count_B>>, <<e_count_star, e_count_a>>, <<e_count_zz>>,
    <<e_count_B, e_count_star>>, <<e_count_star, e_B>>, <<e_a, e_count_B>> }

\* WHERE texts: none, some that keep some rows, one that keeps none, and one
\* that names a column the table lacks
ExecWheres ==
  { << >>,
    <<"a", " ", "=", " ", "1">>,
    <<"a", " ", ">", " ", "1", " ", "O", "R", " ", "b", " ", "=", " ", "x">>,
    <<"b", " ", "!", "=", " ", "'", "'", " ", "a", "n", "d", " ", "A", " ", "<", " ", "2">>,
    <<"a", " ", "=", " ", "9">>,
    <<"z", "z", " ", "=", " ", "1">> }

\* The table t by either of its names, and a table that does not exist
ExecTables == {<<"t">>, t_csv, <<"u">>}

QueryText(select, table, where) ==
  txt_select \o Join([i \in 1..Len(select) |-> select[i].text], <<",", " ">>)
    \o kw_from \o table \o (IF where = << >> THEN << >> ELSE txt_where \o where)

\* The calls: a query text that parse_query accepts, parsed, with what its
\* select list asks for
ExecCall(s, t, w) ==
  [sql |-> QueryText(s, t, w), query |-> parse_query(QueryText(s, t, w)).val, select |-> s]

ExecCalls ==
  {ExecCall(s, <<"t">>, w) : s \in ExecSelects, w \in ExecWheres}
    \cup {ExecCall(<<e_star>>, t, << >>) : t \in ExecTables}

InitExecute ==
  /\ pc = "call"
  /\ args \in ExecCalls
  /\ ret = NotCalled
  /\ files \in ExecFiles
  /\ sql = << >>
  /\ parsed = Unbound
  /\ results = Unbound
  /\ output = << >>

CallExecute ==
  /\ pc = "call"
  /\ ret' = execute_query(args.query, files)
  /\ pc' = "return"
  /\ UNCHANGED <<args, files, sql, parsed, results, output>>

SpecExecute == InitExecute /\ [][CallExecute]_vars

\* The table the query names, as the loader gives it
Loaded == load_csv_table(args.query.from, files)

TableRows == Loaded.val.rows

\* The row passes the WHERE filter of the query
Passes(r) == Truthy(evaluate_conditions(r, args.query.where).val)

\* Evaluating the filter raises on some row of the table
FilterRaises ==
  \E i \in 1..Len(TableRows) : evaluate_conditions(TableRows[i], args.query.where).exc # ""

\* The places of the table's rows that pass the filter
Passing == {i \in 1..Len(TableRows) : Passes(TableRows[i])}

\* The rows of the table that pass the filter, in source order
RECURSIVE InOrder(_, _)
InOrder(rows, places) ==
  IF places = {} THEN << >>
  ELSE LET first == CHOOSE i \in places : \A j \in places : i <= j
       IN  <<rows[first]>> \o InOrder(rows, places \ {first})

IsCount(e) == e.kind \in {"count", "count_star"}

\* C2: a plain column projection fails with a column-not-found error
\* whenever a requested column is absent from the table's column set,
\* however many rows pass the filter.
C2_UnknownColumn ==
  pc = "return" /\ Loaded.exc = "" /\ ~FilterRaises
    /\ (\A i \in 1..Len(args.select) : args.select[i].kind = "plain")
    /\ (\E i \in 1..Len(args.select) :
          \A j \in 1..Len(Loaded.val.columns) :
            Loaded.val.columns[j] # normalize_colname(args.select[i].col))
  => ret.exc = "KeyError"

\* C3: when the select list has a COUNT entry, the result holds exactly one
\* pair per COUNT expression; plain entries contribute none.
C3_OnePairPerCount ==
  pc = "return" /\ ret.exc = "" /\ (\E i \in 1..Len(args.select) : IsCount(args.select[i]))
  => Len(ret.val) = Cardinality({i \in 1..Len(args.select) : IsCount(args.select[i])})

\* C4: COUNT(*) is the number of rows that pass the filter, and COUNT(col)
\* the number of passing rows whose value under the normalized column name
\* is non-empty after trimming.
C4_Counts ==
  pc = "return" /\ Loaded.exc = "" /\ ~FilterRaises =>
    \A i \in 1..Len(args.select) :
      LET e == args.select[i]
      IN  /\ e.kind = "count_star" =>
               ret.exc = "" /\ ret.val[i][k_count] = Cardinality(Passing)
          /\ e.kind = "count" =>
               /\ ret.exc = ""
               /\ ret.val[i][k_count] =
                    Cardinality({p \in Passing :
                       /\ normalize_colname(e.col) \in DOMAIN TableRows[p]
                       /\ strip(TableRows[p][normalize_colname(e.col)]) # << >>})

\* C4 witness: under a WHERE filter that some row passes and some row fails,
\* COUNT(B) came out smaller than COUNT(*), which is not zero.
C4_Witness ==
  /\ pc = "return"
  /\ args.select = <<e_count_B, e_count_star>>
  /\ ~args.query.where.is_none
  /\ ret.exc = ""
  /\ ret.val[1][k_count] < ret.val[2][k_count]
  /\ ret.val[2][k_count] < Len(TableRows)

\* C6: SELECT * with no WHERE clause returns every row of the table in
\* source order; with a WHERE clause it returns the rows for which the
\* evaluator returns true, in source order.
C6_SelectStar ==
  pc = "return" /\ args.select = <<e_star>> /\ Loaded.exc = "" /\ ~FilterRaises =>
    /\ args.query.where.is_none => ret = Return(TableRows)
    /\ ~args.query.where.is_none => ret = Return(InOrder(TableRows, Passing))

\* C6 witness: SELECT * with a WHERE clause returned only the second of two
\* different rows.
C6_Witness ==
  /\ pc = "return"
  /\ args.select = <<e_star>>
  /\ ~args.query.where.is_none
  /\ Len(TableRows) = 2
  /\ ret.exc = ""
  /\ ret.val = <<TableRows[2]>>
  /\ TableRows[1] # TableRows[2]

\* ------------------------------------------------------------------------
\* CLI: the loop of mini_engine
\* ------------------------------------------------------------------------

w_exit == <<"e", "x", "i", "t">>

w_quit == <<"q", "u", "i", "t">>

\* execute_query(parsed) where p is what parse_query returned: not reached
\* when parse_query raised
ExecuteParsed(p, fs) == IF p.exc # "" THEN p ELSE execute_query(p.val, fs)

\* The try statement as it would be without its except clause: the
\* exception leaves mini_engine
TryQuery_uncaught(p, r, old_parsed, old_results) ==
  IF p.exc # ""
  THEN [parsed |-> old_parsed, results |-> old_results,
        output |-> <<Line("error", <<p.exc>>)>>, pc |-> "returned"]
  ELSE IF r.exc # ""
  THEN [parsed |-> Bound(p.val), results |-> old_results,
        output |-> <<Line("error", <<r.exc>>)>>, pc |-> "returned"]
  ELSE [parsed |-> Bound(p.val), results |-> Bound(r.val),
        output |-> print_results(r.val), pc |-> "prompt"]

\* The try statement of the loop (lines 231-236), where p is what
\* parse_query returned and r what execute_query then returned: the locals
\* that were assigned, the lines printed, and where the loop goes next
TryQuery(p, r, old_parsed, old_results) ==
  IF p.exc # ""
  THEN [parsed |-> old_parsed, results |-> old_results,
        output |-> <<Line("error", <<p.exc>>)>>, pc |-> "prompt"]
  ELSE IF r.exc # ""
  THEN [parsed |-> Bound(p.val), results |-> old_results,
        output |-> <<Line("error", <<r.exc>>)>>, pc |-> "prompt"]
  ELSE [parsed |-> Bound(p.val), results |-> Bound(r.val),
        output |-> print_results(r.val), pc |-> "prompt"]

\* The files of the session: t.csv with two rows, or with none, or no file
ReplFiles ==
  { [n \in {t_csv} |-> CsvFile(ExecFieldnames, << <<<<"1">>, <<"x">>>>, <<<<"2">>, NoneCell>> >>)],
    [n \in {t_csv} |-> CsvFile(ExecFieldnames, << >>)],
    NoFiles }

txt_star_from_t == txt_select \o <<"*">> \o txt_from_t

ReplLines ==
  { << >>,
    <<" ", " ">>,
    w_exit,
    <<" ", "Q", "U", "I", "T", " ">>,
    <<"E", "x", "i", "t", ";">>,
    txt_star_from_t,
    txt_SELECT \o <<"a">> \o txt_FROM_t \o txt_WHERE \o <<"a", " ", ">", " ", "1", ";">>,
    txt_select \o e_count_star.text \o <<",", " ">> \o e_count_B.text \o txt_from_t,
    txt_select \o <<"*", " ", "f", "r", "o", "m">>,
    txt_star_from_t \o txt_where \o <<"a", " ", "=">>,
    txt_star_from_t \o txt_where \o <<"a", " ", "=", " ", "'">>,
    txt_select \o <<"z", "z">> \o txt_from_t,
    txt_star_from_t \o txt_where \o <<"z", "z", " ", "=", " ", "1">>,
    txt_star_from_t \o txt_where \o <<"a", " ", "=", " ", "1", " ", "a", " ", "=", " ", "1">> }

InitRepl ==
  /\ pc = "prompt"
  /\ args = << >>
  /\ ret = NotCalled
  /\ files \in ReplFiles
  /\ sql = << >>
  /\ parsed = Unbound
  /\ results = Unbound
  /\ output = <<Line("banner", << >>)>>

\* input() raises KeyboardInterrupt or EOFError
Interrupt ==
  /\ pc = "prompt"
  /\ output' = <<Line("goodbye", << >>)>>
  /\ pc' = "returned"
  /\ UNCHANGED <<args, ret, files, sql, parsed, results>>

\* The locals, the output and the position after the try statement
Assign(t) ==
  /\ parsed' = t.parsed
  /\ results' = t.results
  /\ output' = t.output
  /\ pc' = t.pc

\* One turn of the loop on a line of input
ReadLine(line) ==
  /\ pc = "prompt"
  /\ sql' = strip(line)
  /\ IF sql' = << >>
     THEN /\ output' = << >>
          /\ UNCHANGED <<pc, parsed, results>>
     ELSE IF lower(sql') \in {w_exit, w_quit}
     THEN /\ output' = <<Line("bye", << >>)>>
          /\ pc' = "returned"
          /\ UNCHANGED <<parsed, results>>
     ELSE Assign(TryQuery(parse_query(sql'), ExecuteParsed(parse_query(sql'), files),
                          parsed, results))
  /\ UNCHANGED <<args, ret, files>>

Next ==
  \/ Interrupt
  \/ \E line \in ReplLines : ReadLine(line)

Spec == InitRepl /\ [][Next]_vars

\* The kinds of the lines printed
OutputKinds == [i \in 1..Len(output) |-> output[i].kind]

\* The line read last is a query, and parsing or executing it raises
QueryFails ==
  /\ sql # << >>
  /\ lower(sql) \notin {w_exit, w_quit}
  /\ ExecuteParsed(parse_query(sql), files).exc # ""

\* C7: a query whose parse or execution raises produces only the error
\* message, no rows and no aggregate output, and the loop goes on to the
\* next prompt; the loop ends only on an EXIT or QUIT line or on end of
\* input or an interrupt, never because a query failed.
C7_ErrorsDoNotStop ==
  /\ QueryFails /\ OutputKinds # <<"goodbye">> =>
       pc = "prompt" /\ OutputKinds = <<"error">>
  /\ pc = "returned" =>
       \/ OutputKinds = <<"goodbye">>
       \/ OutputKinds = <<"bye">> /\ lower(sql) \in {w_exit, w_quit}

\* C7 witness: after a query that printed rows, a query whose execution
\* raised printed the error alone and the loop is at its prompt again.
C7_Witness ==
  /\ pc = "prompt"
  /\ QueryFails
  /\ parse_query(sql).exc = ""
  /\ OutputKinds = <<"error">>
  /\ results.bound /\ results.v # << >>

====
